---- MODULE Spec2Model ----
(***************************************************************************)
(* Heat diffusion through a cubic lattice: simulation/propagator.py        *)
(* (Propagator.propagate) and simulation/heat_conductor.py                 *)
(* (HeatConductor.calculate_temperature_change).                           *)
(*                                                                         *)
(* Numbers.  The program computes in floating point.  Here a temperature   *)
(* is an integer number of grid units (one unit is whatever fraction of a  *)
(* degree the parameters of a run are written in).  A float quotient is    *)
(* rounded to a float; here each of the two quotients the kernel computes  *)
(* is cut toward zero to the grid, in the order the code computes them,    *)
(* and the comparison with min_delta is made on the result, as in the code.*)
(* Products, sums and differences of grid numbers are exact.               *)
(*                                                                         *)
(* Randomness.  random.shuffle(directions) followed by the for loop over   *)
(* the list visits the six directions in an arbitrary order.  The variable *)
(* directions holds the directions the loop has not visited yet, and each  *)
(* iteration takes any one of them: the visiting orders are exactly the    *)
(* 720 permutations.                                                       *)
(***************************************************************************)
EXTENDS Integers, Sequences, FiniteSets, TLC

VARIABLES
    self,                \* the Propagator's attributes (set by __init__)
    pc,                  \* position of propagate
    cube,                \* the lattice: cell -> temperature
    cube_states,         \* the recorded snapshots
    propagation_queues,  \* the batch: a sequence of queues of cells
    propagation_index,   \* completed steps
    iterations,          \* loop counter
    i,                   \* index of the for loop over the batch (1-based, 0: past the end)
    cur,                 \* the popped cell (x, y, z) being processed
    directions,          \* directions the loop over directions has not visited yet
    terminal,            \* how the while loop was left
    raised,              \* the exception propagate ended with, "" if none
    sum_before,          \* history: sum of the lattice when the current step began
    injected,            \* history: what the current step added at the origin
    call,                \* a call of the kernel on its own: conductor and temperatures
    result               \* what that call returned

vars == <<self, pc, cube, cube_states, propagation_queues, propagation_index,
          iterations, i, cur, directions, terminal, raised, sum_before, injected,
          call, result>>

\* ---------------------------------------------------------------- bounds

\* Largest max_iterations a run is given.
MaxIter == 2

\* Largest delay a run is given.
MaxDelay == 2

\* ------------------------------------------------------------ arithmetic

Abs(n) == IF n < 0 THEN -n ELSE n

\* The quotient n / d (d > 0) cut toward zero.
TruncDiv(n, d) == IF n >= 0 THEN n \div d ELSE -((-n) \div d)

\* ------------------------------------------------------------ the kernel

HeatConductor_init(k, c_p, rho, min_delta, conduction_time, delta_x, a) ==
    [min_delta |-> min_delta, k |-> k, a |-> a, conduction_time |-> conduction_time,
     delta_x |-> delta_x, c_p |-> c_p, rho |-> rho]

\* q without the minus sign: heat flows toward the warmer cell.
q_rate_NoMinus(h, initial_temp, neighbour_temp) ==
    TruncDiv(h.k * h.a * (initial_temp - neighbour_temp), h.delta_x)

\* line 42 (the rate of heat transfer q; q names a queue below):
\* q = -self.k * self.a * (initial_temp - neighbour_temp) / self.delta_x
q_rate(h, initial_temp, neighbour_temp) ==
    TruncDiv((0 - h.k) * h.a * (initial_temp - neighbour_temp), h.delta_x)

\* line 45: delta_q = q * self.conduction_time
delta_q(h, initial_temp, neighbour_temp) ==
    q_rate(h, initial_temp, neighbour_temp) * h.conduction_time

\* The mass of a cell, taking the area for nothing.
mass_NoArea(h) == h.rho * h.delta_x

\* line 48: mass = self.rho * self.a * self.delta_x
mass(h) == h.rho * h.a * h.delta_x

\* line 51: delta_temp = delta_q / (mass * self.c_p)
delta_temp(h, initial_temp, neighbour_temp) ==
    TruncDiv(delta_q(h, initial_temp, neighbour_temp), mass(h) * h.c_p)

\* The clamp of line 54 without abs: every negative delta is cut to 0.
clamp_NoAbs(delta, min_delta) == IF delta < min_delta THEN 0 ELSE delta

\* lines 54-57: if abs(delta_temp) < self.min_delta: return 0
clamp(delta, min_delta) == IF Abs(delta) < min_delta THEN 0 ELSE delta

calculate_temperature_change(h, initial_temp, neighbour_temp) ==
    clamp(delta_temp(h, initial_temp, neighbour_temp), h.min_delta)

\* ------------------------------------------------------------ the lattice

Cells(size) == {<<x, y, z>> : x \in 0 .. size - 1, y \in 0 .. size - 1, z \in 0 .. size - 1}

\* line 63
directions_list == << <<1, 0, 0>>, <<-1, 0, 0>>, <<0, 1, 0>>, <<0, -1, 0>>, <<0, 0, 1>>, <<0, 0, -1>> >>

AllDirections == {directions_list[j] : j \in 1 .. Len(directions_list)}

\* lines 114-115, the bounds part of the condition
InBounds(size, n) ==
    /\ 0 <= n[1] /\ n[1] < size
    /\ 0 <= n[2] /\ n[2] < size
    /\ 0 <= n[3] /\ n[3] < size

RECURSIVE SumOver(_, _)
SumOver(f, S) ==
    IF S = {} THEN 0
    ELSE LET c == CHOOSE c \in S : TRUE IN f[c] + SumOver(f, S \ {c})

\* The sum of all cell temperatures of a lattice.
Total(f) == SumOver(f, DOMAIN f)

\* np.all(np.isclose(cube, end_temp, rtol=0, atol=delta_tolerance)), line 92
AllClose(f, end_temp, atol) == \A c \in DOMAIN f : Abs(f[c] - end_temp) <= atol

\* (nx, ny, nz) in propagation_queues[i]
InQueue(q, c) == \E j \in 1 .. Len(q) : q[j] = c

\* ------------------------------------------------------------- the runs

Propagator_init(cube_size, origin, start_temp, end_temp, increment, delay, max_iterations, delta_tolerance, heat_conductor) ==
    [cube_size |-> cube_size, origin |-> origin, start_temp |-> start_temp,
     end_temp |-> end_temp, increment |-> increment, delay |-> delay,
     max_iterations |-> max_iterations, delta_tolerance |-> delta_tolerance,
     heat_conductor |-> heat_conductor]

\* The conductors runs are given: a full swap (k / (rho c_p) = 1), a half
\* transfer, and a half transfer whose small deltas are clamped to 0.
Conductors ==
    {HeatConductor_init(1, 1, rho, md, 1, 1, 1) : rho \in {1, 2}, md \in {1, 2}}

\* What the Propagator is constructed with.  cube_size 0, delay 0,
\* max_iterations 0 and an origin outside the lattice are accepted by __init__.
Runs ==
    {Propagator_init(n, o, 0, e, inc, d, m, tol, h) :
        n \in {0, 1, 2}, o \in {<<0, 0, 0>>, <<1, 0, 0>>}, e \in {0, 3}, inc \in {0, 1, 2},
        d \in 0 .. MaxDelay, m \in 0 .. MaxIter, tol \in {0, 1}, h \in Conductors}

NoCell == <<>>

\* No call of the kernel on its own, and no result yet.
NoCall == <<>>

\* The state once the Propagator is constructed with one of the arguments S.
InitWith(S) ==
    /\ self \in S
    /\ pc = "constructed"
    /\ cube = <<>>
    /\ cube_states = <<>>
    /\ propagation_queues = <<>>
    /\ propagation_index = 0
    /\ iterations = 0
    /\ i = 0
    /\ cur = NoCell
    /\ directions = {}
    /\ terminal = "RUNNING"
    /\ raised = ""
    /\ sum_before = 0
    /\ injected = 0
    /\ call = NoCall
    /\ result = NoCall

Init == InitWith(Runs)

\* ------------------------------------------------------------ propagate

\* line 58: np.full((cube_size, cube_size, cube_size), start_temp)
NewCube(size, start_temp) == [c \in Cells(size) |-> start_temp]

\* lines 58-76.  cube[self.origin] = ... raises IndexError when the origin is
\* not a cell of the lattice (an empty lattice has no cell).
Begin ==
    /\ pc = "constructed"
    /\ IF InBounds(self.cube_size, self.origin)
       THEN /\ cube' = [NewCube(self.cube_size, self.start_temp)
                            EXCEPT ![self.origin] = self.start_temp + self.increment]
            /\ propagation_queues' = << <<self.origin>> >>
            /\ pc' = "while"
            /\ raised' = raised
       ELSE /\ cube' = cube
            /\ propagation_queues' = propagation_queues
            /\ pc' = "raised"
            /\ raised' = "IndexError"
    /\ cube_states' = <<>>
    /\ propagation_index' = 0
    /\ iterations' = 0
    /\ UNCHANGED <<call, result, self, i, cur, directions, terminal, sum_before, injected>>

\* LoopContinues with the cap off by one.
LoopContinues_OffByOne(queues, iters, max_iterations) ==
    queues # <<>> /\ iters <= max_iterations

\* line 78: while propagation_queues and iterations < max_iterations
LoopContinues(queues, iters, max_iterations) ==
    queues # <<>> /\ iters < max_iterations

\* line 78, the loop test; the loop is left here with the batch empty
\* (STALLED) or with the counter at its maximum (EXHAUSTED).
WhileTest ==
    /\ pc = "while"
    /\ IF LoopContinues(propagation_queues, iterations, self.max_iterations)
       THEN /\ pc' = "seed"
            /\ terminal' = terminal
       ELSE /\ pc' = "print"
            /\ terminal' = IF propagation_queues = <<>> THEN "STALLED" ELSE "EXHAUSTED"
    /\ UNCHANGED <<call, result, self, cube, cube_states, propagation_queues, propagation_index,
                   iterations, i, cur, directions, raised, sum_before, injected>>

\* Seeds without the elif branch of line 88.
Seeds_OnlyOnMultiple(index, delay) == index % delay = 0

\* Seeds that holds in every step.
Seeds_Always(index, delay) == TRUE

\* lines 82-89: does this step append a queue holding the origin?
Seeds(index, delay) == index % delay = 0 \/ index < delay

\* lines 82-84: does this step raise the origin's temperature?
Reheats(index, delay, origin_temp, end_temp) ==
    index % delay = 0 /\ origin_temp < end_temp

\* lines 80-89.  propagation_index % self.delay raises ZeroDivisionError when
\* delay is 0.
Seed ==
    /\ pc = "seed"
    /\ iterations' = iterations + 1
    /\ sum_before' = Total(cube)
    /\ IF self.delay = 0
       THEN /\ pc' = "raised"
            /\ raised' = "ZeroDivisionError"
            /\ UNCHANGED <<cube, propagation_queues, injected>>
       ELSE /\ pc' = "isclose"
            /\ raised' = raised
            /\ IF Reheats(propagation_index, self.delay, cube[self.origin], self.end_temp)
               THEN /\ cube' = [cube EXCEPT ![self.origin] = @ + self.increment]
                    /\ injected' = self.increment
               ELSE /\ cube' = cube
                    /\ injected' = 0
            /\ propagation_queues' =
                   IF Seeds(propagation_index, self.delay)
                   THEN Append(propagation_queues, <<self.origin>>)
                   ELSE propagation_queues
    /\ UNCHANGED <<call, result, self, cube_states, propagation_index, i, cur, directions, terminal>>

\* ClearAll that leaves the queues as they are.
ClearAll_Keeps(queues) == queues

\* lines 93-94: for queue in propagation_queues: queue.clear()
ClearAll(queues) == [j \in 1 .. Len(queues) |-> <<>>]

\* lines 92-98: the convergence check; when it fails the loop over the batch
\* starts at the last queue.
IsClose ==
    /\ pc = "isclose"
    /\ IF AllClose(cube, self.end_temp, self.delta_tolerance)
       THEN /\ propagation_queues' = ClearAll(propagation_queues)
            /\ pc' = "print"
            /\ terminal' = "CONVERGED"
            /\ i' = i
       ELSE /\ propagation_queues' = propagation_queues
            /\ pc' = "for"
            /\ terminal' = terminal
            /\ i' = Len(propagation_queues)
    /\ UNCHANGED <<call, result, self, cube, cube_states, propagation_index, iterations, cur,
                   directions, raised, sum_before, injected>>

\* RemoveIfEmpty that never removes.
RemoveIfEmpty_Never(queues, j) == queues

\* RemoveIfEmpty that removes the oldest queue of the batch, pop(0), when the
\* queue at j is empty.
RemoveIfEmpty_Oldest(queues, j) ==
    IF queues[j] = <<>> THEN Tail(queues) ELSE queues

\* lines 140-142: if not propagation_queues[i]: propagation_queues.pop(i)
RemoveIfEmpty(queues, j) ==
    IF queues[j] = <<>>
    THEN [m \in 1 .. Len(queues) - 1 |-> IF m < j THEN queues[m] ELSE queues[m + 1]]
    ELSE queues

\* lines 98-106 (and 140-142 when the queue at i is empty): the next queue of
\* the batch, newest first; its oldest cell is popped and the directions are
\* shuffled.
PopCell ==
    /\ pc = "for"
    /\ i >= 1
    /\ IF propagation_queues[i] # <<>>
       THEN /\ cur' = Head(propagation_queues[i])
            /\ propagation_queues' = [propagation_queues EXCEPT ![i] = Tail(@)]
            /\ directions' = AllDirections
            /\ pc' = "dirs"
            /\ i' = i
       ELSE /\ propagation_queues' = RemoveIfEmpty(propagation_queues, i)
            /\ i' = i - 1
            /\ UNCHANGED <<cur, directions, pc>>
    /\ UNCHANGED <<call, result, self, cube, cube_states, propagation_index, iterations, terminal,
                   raised, sum_before, injected>>

\* Visit whose branches append without the membership test.
Visit_NoMembership(p, cb, q, c, d) ==
    LET n == <<c[1] + d[1], c[2] + d[2], c[3] + d[3]>>
    IN  IF InBounds(p.cube_size, n) /\ cb[c] > cb[n]
        THEN LET diff == calculate_temperature_change(p.heat_conductor, cb[c], cb[n])
             IN  IF diff < 0
                 THEN [cube |-> [cb EXCEPT ![n] = @ - diff, ![c] = @ + diff],
                       queue |-> Append(q, n)]
                 ELSE [cube |-> [cb EXCEPT ![n] = @ + diff, ![c] = @ - diff],
                       queue |-> Append(q, c)]
        ELSE [cube |-> cb, queue |-> q]

\* Visit whose transfer raises the neighbour and does not lower the cell.
Visit_NoDebit(p, cb, q, c, d) ==
    LET n == <<c[1] + d[1], c[2] + d[2], c[3] + d[3]>>
    IN  IF InBounds(p.cube_size, n) /\ cb[c] > cb[n]
        THEN LET diff == calculate_temperature_change(p.heat_conductor, cb[c], cb[n])
             IN  IF diff < 0 /\ ~InQueue(q, n)
                 THEN [cube |-> [cb EXCEPT ![n] = @ - diff], queue |-> Append(q, n)]
                 ELSE IF diff >= 0 /\ ~InQueue(q, c)
                 THEN [cube |-> [cb EXCEPT ![n] = @ + diff], queue |-> Append(q, c)]
                 ELSE [cube |-> cb, queue |-> q]
        ELSE [cube |-> cb, queue |-> q]

\* lines 111-137: one direction d of the popped cell c, on lattice cb and
\* queue q; the result is the new lattice and the new queue.
Visit(p, cb, q, c, d) ==
    LET n == <<c[1] + d[1], c[2] + d[2], c[3] + d[3]>>
    IN  IF InBounds(p.cube_size, n) /\ cb[c] > cb[n]
        THEN LET diff == calculate_temperature_change(p.heat_conductor, cb[c], cb[n])
             IN  IF diff < 0 /\ ~InQueue(q, n)
                 THEN [cube |-> [cb EXCEPT ![n] = @ - diff, ![c] = @ + diff],
                       queue |-> Append(q, n)]
                 ELSE IF diff >= 0 /\ ~InQueue(q, c)
                 THEN [cube |-> [cb EXCEPT ![n] = @ + diff, ![c] = @ - diff],
                       queue |-> Append(q, c)]
                 ELSE [cube |-> cb, queue |-> q]
        ELSE [cube |-> cb, queue |-> q]

\* lines 109-137: one iteration of the loop over the shuffled directions, the
\* direction taken from choices.
DirectionFrom(choices) ==
    /\ pc = "dirs"
    /\ \E d \in choices :
          LET r == Visit(self, cube, propagation_queues[i], cur, d)
          IN  /\ cube' = r.cube
              /\ propagation_queues' = [propagation_queues EXCEPT ![i] = r.queue]
              /\ directions' = directions \ {d}
    /\ UNCHANGED <<call, result, self, pc, cube_states, propagation_index, iterations, i, cur,
                   terminal, raised, sum_before, injected>>

\* Any direction not visited yet: the shuffle may have put it next.
Direction == DirectionFrom(directions)

\* lines 140-142, after the last direction: the queue is removed from the
\* batch when it is empty, and the loop over the batch goes on.
EndCell ==
    /\ pc = "dirs"
    /\ directions = {}
    /\ propagation_queues' = RemoveIfEmpty(propagation_queues, i)
    /\ i' = i - 1
    /\ cur' = NoCell
    /\ pc' = "for"
    /\ UNCHANGED <<call, result, self, cube, cube_states, propagation_index, iterations, directions,
                   terminal, raised, sum_before, injected>>

\* Record that stores the lattice itself, not a copy: every entry of the list
\* is the one live lattice.
Record_Aliased(states, cb) == [k \in 1 .. Len(states) + 1 |-> cb]

\* Record that puts the copy at the front of the list.
Record_Prepend(states, cb) == <<cb>> \o states

\* line 145: cube_states.append(cube.copy())
Record(states, cb) == Append(states, cb)

\* lines 144-147, after the loop over the batch: the snapshot is recorded.
Snapshot ==
    /\ pc = "for"
    /\ i = 0
    /\ cube_states' = Record(cube_states, cube)
    /\ propagation_index' = propagation_index + 1
    /\ pc' = "while"
    /\ UNCHANGED <<call, result, self, cube, propagation_queues, iterations, i, cur, directions,
                   terminal, raised, sum_before, injected>>

\* lines 148-152: print(cube_states[-1]) raises IndexError when no snapshot
\* was recorded; otherwise the snapshots are returned.
Return ==
    /\ pc = "print"
    /\ IF cube_states = <<>>
       THEN /\ pc' = "raised"
            /\ raised' = "IndexError"
       ELSE /\ pc' = "done"
            /\ raised' = raised
    /\ UNCHANGED <<call, result, self, cube, cube_states, propagation_queues, propagation_index,
                   iterations, i, cur, directions, terminal, sum_before, injected>>

Next ==
    \/ Begin
    \/ WhileTest
    \/ Seed
    \/ IsClose
    \/ PopCell
    \/ Direction
    \/ EndCell
    \/ Snapshot
    \/ Return

Spec == Init /\ [][Next]_vars

\* ----------------------------------------------------------- a scenario

\* Steps of a scenario run whose shuffles are arbitrary; in the later steps
\* every shuffle leaves the list in the order of line 63.
ShuffledSteps == 1

\* k=237, c_p=900, rho=2700, min_delta=1e-5, conduction_time=1, delta_x=1, a=1
\* (the defaults of HeatConductor.__init__), temperatures in units of 1e-6.
ScenarioConductor == HeatConductor_init(237, 900, 2700, 10, 1, 1, 1)

\* cube_size=2, origin=(0,0,0), start_temp=0, end_temp=1, increment=1, delay=1,
\* max_iterations=50, delta_tolerance=0.05, temperatures in units of 1e-6.
ScenarioRun ==
    Propagator_init(2, <<0, 0, 0>>, 0, 1000000, 1000000, 1, 50, 50000, ScenarioConductor)

\* The first direction of line 63 among S.
FirstLeft(S) ==
    directions_list[CHOOSE j \in 1 .. Len(directions_list) :
                        /\ directions_list[j] \in S
                        /\ \A m \in 1 .. j - 1 : directions_list[m] \notin S]

\* The next direction of a scenario run.
DirectionScenario ==
    DirectionFrom(IF propagation_index < ShuffledSteps \/ directions = {}
                  THEN directions
                  ELSE {FirstLeft(directions)})

InitScenario == InitWith({ScenarioRun})

NextScenario ==
    \/ Begin
    \/ WhileTest
    \/ Seed
    \/ IsClose
    \/ PopCell
    \/ DirectionScenario
    \/ EndCell
    \/ Snapshot
    \/ Return

SpecScenario == InitScenario /\ [][NextScenario]_vars

\* ------------------------------------------------------------ long runs

\* max_iterations of the long runs.
LongIter == 5

\* A conductor that moves two thirds of the difference.
LongConductor == HeatConductor_init(2, 1, 3, 1, 1, 1, 1)

\* Runs on the 2 x 2 x 2 lattice long enough for a step after the first delay
\* steps that is no multiple of delay, and for a convergence that follows a
\* reheat.  Their shuffles are those of the scenario.
LongRuns ==
    {Propagator_init(2, <<0, 0, 0>>, 0, 3, inc, d, LongIter, tol, LongConductor) :
        inc \in {0, 3}, d \in {1, 2}, tol \in {0, 2}}

InitLong == InitWith(LongRuns)

SpecLong == InitLong /\ [][NextScenario]_vars

\* ------------------------------------------------- the kernel on its own

\* Temperatures the kernel is called with lie in -MaxTemp .. MaxTemp.
MaxTemp == 3

\* Largest cross-sectional area a conductor is given.
MaxArea == 3

\* Conductors with positive parameters.
KernelConductors ==
    {HeatConductor_init(k, c_p, rho, md, ct, dx, a) :
        k \in {1, 2}, c_p \in {1, 2}, rho \in {1, 2}, md \in {1, 2}, ct \in {1, 4},
        dx \in {1, 2}, a \in 1 .. MaxArea}

InitKernel ==
    /\ call \in [heat_conductor : KernelConductors,
                  initial_temp : -MaxTemp .. MaxTemp,
                  neighbour_temp : -MaxTemp .. MaxTemp]
    /\ result = NoCall
    /\ self = NoCall
    /\ pc = "kernel"
    /\ cube = <<>>
    /\ cube_states = <<>>
    /\ propagation_queues = <<>>
    /\ propagation_index = 0
    /\ iterations = 0
    /\ i = 0
    /\ cur = NoCell
    /\ directions = {}
    /\ terminal = "RUNNING"
    /\ raised = ""
    /\ sum_before = 0
    /\ injected = 0

\* heat_conductor.calculate_temperature_change(initial_temp, neighbour_temp)
Calculate ==
    /\ pc = "kernel"
    /\ result' = calculate_temperature_change(call.heat_conductor, call.initial_temp,
                                               call.neighbour_temp)
    /\ pc' = "returned"
    /\ UNCHANGED <<call, self, cube, cube_states, propagation_queues, propagation_index,
                   iterations, i, cur, directions, terminal, raised, sum_before, injected>>

NextKernel == Calculate

SpecKernel == InitKernel /\ [][NextKernel]_vars

\* ------------------------------------------------------------ properties

\* The arguments the interface allows: a positive size, an origin inside the
\* lattice, a positive delay and a positive max_iterations.
ValidArguments(p) ==
    /\ p.cube_size >= 1
    /\ InBounds(p.cube_size, p.origin)
    /\ p.delay >= 1
    /\ p.max_iterations >= 1

\* The while loop has been left.
LoopLeft == terminal # "RUNNING"

NoDuplicates(q) == \A j, m \in 1 .. Len(q) : q[j] = q[m] => j = m

\* C1: with max_iterations >= 1 and delay >= 1 the loop counter never exceeds
\* max_iterations, and the loop is left in one of three ways: by the
\* convergence check of a step (CONVERGED), at the loop test with the batch
\* empty (STALLED), or at the loop test with the counter at max_iterations and
\* the batch not empty (EXHAUSTED).
C1_LoopExit ==
    (self.max_iterations >= 1 /\ self.delay >= 1) =>
        /\ iterations <= self.max_iterations
        /\ terminal \in {"RUNNING", "CONVERGED", "STALLED", "EXHAUSTED"}
        /\ pc \in {"print", "done"} => LoopLeft
        /\ pc \in {"while", "seed", "isclose", "for", "dirs"} => ~LoopLeft
        /\ terminal = "CONVERGED" =>
              /\ iterations >= 1
              /\ AllClose(cube, self.end_temp, self.delta_tolerance)
        /\ terminal = "STALLED" => propagation_queues = <<>>
        /\ terminal = "EXHAUSTED" =>
              /\ propagation_queues # <<>>
              /\ iterations = self.max_iterations

C1_Witness ==
    /\ pc = "print"
    /\ terminal = "EXHAUSTED"
    /\ self.cube_size = 2
    /\ iterations = 2

\* C2: at most max_iterations snapshots are recorded, and every snapshot is a
\* lattice of cube_size x cube_size x cube_size cells.
C2_SnapshotBound ==
    /\ Len(cube_states) <= self.max_iterations
    /\ \A k \in 1 .. Len(cube_states) : DOMAIN cube_states[k] = Cells(self.cube_size)

C2_Witness ==
    /\ Len(cube_states) = 2
    /\ self.max_iterations = 2
    /\ self.cube_size = 2

\* C3: no queue of the batch holds the same cell twice, in any state, the
\* states between two appends of one popped cell included.
C3_NoDuplicateInQueue ==
    \A j \in 1 .. Len(propagation_queues) : NoDuplicates(propagation_queues[j])

\* A cell is being processed, its queue has been appended to twice, and one
\* cell is in two queues of the batch.
C3_Witness ==
    /\ pc = "dirs"
    /\ directions # {}
    /\ Len(propagation_queues[i]) >= 2
    /\ \E j \in 1 .. Len(propagation_queues) :
          /\ j # i
          /\ \E c \in Cells(self.cube_size) :
                InQueue(propagation_queues[j], c) /\ InQueue(propagation_queues[i], c)

\* C4: when the convergence check finds every cell within the tolerance of
\* end_temp, every queue is emptied, the loop is left in that step, and neither
\* the lattice nor the snapshots change; a converged run holds one snapshot per
\* earlier step and none for the step that converged.
C4_ConvergedStep ==
    /\ [](terminal = "CONVERGED" =>
             /\ Len(cube_states) = iterations - 1
             /\ \A j \in 1 .. Len(propagation_queues) : propagation_queues[j] = <<>>)
    /\ [][(pc = "isclose" /\ AllClose(cube, self.end_temp, self.delta_tolerance)) =>
             /\ pc' = "print"
             /\ terminal' = "CONVERGED"
             /\ Len(propagation_queues') = Len(propagation_queues)
             /\ \A j \in 1 .. Len(propagation_queues') : propagation_queues'[j] = <<>>
             /\ cube_states' = cube_states
             /\ cube' = cube
             /\ propagation_index' = propagation_index]_vars

C4_Witness ==
    /\ pc = "print"
    /\ terminal = "CONVERGED"
    /\ Len(cube_states) >= 1
    /\ Len(propagation_queues) >= 2

C6_InvalidRejectedAtConstruction ==
    ~ValidArguments(self) => (pc = "constructed" /\ raised = "")

\* C7: propagate never ends with an exception; whatever way the loop is left
\* the snapshots recorded so far are returned, the empty sequence included.
C7_NeverRaises ==
    ValidArguments(self) =>
        /\ raised = ""
        /\ pc # "raised"

\* C8 as stated: with max_iterations <= delay the run ends EXHAUSTED with
\* exactly max_iterations snapshots.
C8_AlwaysExhausted ==
    (ValidArguments(self) /\ self.max_iterations <= self.delay /\ LoopLeft) =>
        /\ terminal = "EXHAUSTED"
        /\ Len(cube_states) = self.max_iterations

\* C8, amended: with max_iterations <= delay every step appends a queue holding
\* only the origin to the batch, and a run that ends EXHAUSTED has exactly
\* max_iterations snapshots; the run may also stall or converge.
C8_SeededEveryStep ==
    /\ []((ValidArguments(self) /\ self.max_iterations <= self.delay) =>
             /\ terminal = "EXHAUSTED" => Len(cube_states) = self.max_iterations
             /\ LoopLeft => Len(cube_states) <= self.max_iterations)
    /\ [][(ValidArguments(self) /\ self.max_iterations <= self.delay /\ pc = "seed") =>
             propagation_queues' = Append(propagation_queues, <<self.origin>>)]_vars

\* The second step of a run with delay 2 has been seeded.
C8_Witness ==
    /\ ValidArguments(self)
    /\ self.max_iterations <= self.delay
    /\ pc = "isclose"
    /\ propagation_index = 1
    /\ propagation_queues[Len(propagation_queues)] = <<self.origin>>

\* C9 as stated: a single-cell lattice always ends STALLED with at most one
\* snapshot.
C9_AlwaysStalled ==
    (ValidArguments(self) /\ self.cube_size = 1 /\ LoopLeft) =>
        /\ terminal = "STALLED"
        /\ Len(cube_states) <= 1

\* C9, amended: on a single-cell lattice no heat is transferred and no cell is
\* put back into a queue; the run ends STALLED with exactly one snapshot, unless
\* the first convergence check succeeds, and then it ends CONVERGED with none.
C9_SingleCell ==
    (ValidArguments(self) /\ self.cube_size = 1 /\ pc # "constructed") =>
        /\ Len(cube_states) <= 1
        /\ cube[self.origin] = self.start_temp + self.increment
                                  + (IF iterations >= 1 THEN injected ELSE 0)
        /\ \A j \in 1 .. Len(propagation_queues) : Len(propagation_queues[j]) <= 1
        /\ pc = "dirs" => propagation_queues[i] = <<>>
        /\ LoopLeft =>
              \/ terminal = "STALLED" /\ Len(cube_states) = 1
              \/ terminal = "CONVERGED" /\ Len(cube_states) = 0

C9_Witness ==
    /\ self.cube_size = 1
    /\ self.max_iterations = 2
    /\ terminal = "STALLED"
    /\ pc = "done"
    /\ injected > 0

\* The largest difference between two cell temperatures of a lattice.
Spread(f) ==
    LET hi == CHOOSE c \in DOMAIN f : \A e \in DOMAIN f : f[e] <= f[c]
        lo == CHOOSE c \in DOMAIN f : \A e \in DOMAIN f : f[e] >= f[c]
    IN  f[hi] - f[lo]

\* C10 as stated: the scenario run ends CONVERGED or STALLED with fewer than
\* max_iterations (50) snapshots, the cells of the last one within the
\* tolerance of each other.
C10_ConvergesOrStalls ==
    LoopLeft =>
        /\ terminal \in {"CONVERGED", "STALLED"}
        /\ Len(cube_states) < self.max_iterations
        /\ cube_states # <<>> =>
              Spread(cube_states[Len(cube_states)]) < self.delta_tolerance

\* C10, amended: in the scenario every step leaves one more queue in the
\* batch, the convergence check never succeeds, and the run ends EXHAUSTED with
\* exactly max_iterations (50) snapshots; in the last one the origin is more
\* than 1.9 degrees above the coldest cell, far above the tolerance.
C10_Exhausted ==
    /\ pc = "while" =>
          /\ Len(propagation_queues) = propagation_index + 1
          /\ Len(cube_states) = propagation_index
    /\ terminal \in {"RUNNING", "EXHAUSTED"}
    /\ LoopLeft =>
          /\ Len(cube_states) = self.max_iterations
          /\ Len(cube_states) = 50
          /\ Spread(cube_states[Len(cube_states)]) >= self.delta_tolerance
          /\ Spread(cube_states[Len(cube_states)]) > 1900000

C10_Witness ==
    /\ pc = "done"
    /\ terminal = "EXHAUSTED"
    /\ Len(cube_states) = 50
    /\ self = ScenarioRun

\* Every entry of s is an entry of t at the same place.
IsPrefix(s, t) == Len(s) <= Len(t) /\ \A k \in 1 .. Len(s) : s[k] = t[k]

\* C11: the snapshots are append-only, one per completed step: there are as
\* many as completed steps, the only change of the list is the append of the
\* lattice as it is at the end of a step, and no step changes an entry
\* already recorded.
C11_AppendOnly ==
    /\ [](Len(cube_states) = propagation_index)
    /\ [][/\ IsPrefix(cube_states, cube_states')
          /\ cube_states' # cube_states =>
                /\ pc = "for" /\ i = 0
                /\ Len(cube_states') = Len(cube_states) + 1
                /\ cube_states'[Len(cube_states')] = cube
                /\ cube' = cube
                /\ propagation_index' = propagation_index + 1]_vars

\* Two steps are completed and the first snapshot is not the lattice the
\* second step left.
C11_Witness ==
    /\ Len(cube_states) = 2
    /\ cube_states[1] # cube_states[2]
    /\ cube_states[2] = cube

\* C12 as stated: when a run with at least one snapshot has left its loop the
\* last snapshot is the final lattice.
C12_LastIsFinal ==
    (LoopLeft /\ cube_states # <<>>) => cube_states[Len(cube_states)] = cube

\* C12, amended: after EXHAUSTED and STALLED the last snapshot is the final
\* lattice; after CONVERGED it is the final lattice but for the origin, which
\* is higher in the final lattice by what the step that converged added.
C12_LastIsFinalButReheat ==
    (LoopLeft /\ cube_states # <<>>) =>
        cube = [cube_states[Len(cube_states)] EXCEPT
                   ![self.origin] = @ + (IF terminal = "CONVERGED" THEN injected ELSE 0)]

\* A run that converged in a step that reheated the origin, and one that
\* did not converge, are both reached; this is the first.
C12_Witness ==
    /\ terminal = "CONVERGED"
    /\ cube_states # <<>>
    /\ injected > 0
    /\ pc = "done"

\* The kernel has returned from the call.
Returned == pc = "returned"

\* The closed form of the claim as the fraction ClosedNum / ClosedDen:
\* -k * conduction_time * (T1 - T2) / (rho * delta_x^2 * c_p)
ClosedNum(c) ==
    (0 - c.heat_conductor.k) * c.heat_conductor.conduction_time
        * (c.initial_temp - c.neighbour_temp)

ClosedDen(c) ==
    c.heat_conductor.rho * c.heat_conductor.delta_x * c.heat_conductor.delta_x
        * c.heat_conductor.c_p

\* What the call returns when only the area is changed to a.
WithArea(c, a) ==
    calculate_temperature_change([c.heat_conductor EXCEPT !.a = a],
                                 c.initial_temp, c.neighbour_temp)

C14_Antisymmetric ==
    Returned =>
        LET h == call.heat_conductor
            swapped == calculate_temperature_change(h, call.neighbour_temp, call.initial_temp)
        IN  /\ result = 0 - swapped
            /\ (result = 0) <=> (swapped = 0)
            /\ calculate_temperature_change(h, call.initial_temp, call.initial_temp) = 0
            /\ call.initial_temp = call.neighbour_temp => result = 0
            /\ call.initial_temp > call.neighbour_temp => result <= 0

\* A warmer first argument and a result that the clamp let through.
C14_Witness ==
    /\ Returned
    /\ call.initial_temp > call.neighbour_temp
    /\ result < 0

\* The step with index idx of a run with this delay appends a queue.
SeededStep(idx, delay) == idx % delay = 0 \/ idx < delay

\* C15: the step with index propagation_index appends exactly one queue
\* holding only the origin when the index is a multiple of delay or below
\* delay, and none otherwise; it raises the origin by the increment exactly
\* when the index is a multiple of delay and the origin is below end_temp;
\* and the processing of step 0 starts with two queues, each holding only the
\* origin.
C15_SeedAndReheat ==
    /\ []((pc = "isclose" /\ propagation_index = 0)
            => propagation_queues = << <<self.origin>>, <<self.origin>> >>)
    /\ [][(pc = "seed" /\ pc' = "isclose") =>
            /\ propagation_queues' =
                  IF SeededStep(propagation_index, self.delay)
                  THEN propagation_queues \o << <<self.origin>> >>
                  ELSE propagation_queues
            /\ cube' =
                  IF propagation_index % self.delay = 0 /\ cube[self.origin] < self.end_temp
                  THEN [cube EXCEPT ![self.origin] = cube[self.origin] + self.increment]
                  ELSE cube]_vars

\* A step that is past the first delay steps and no multiple of delay has
\* passed its seeding, with the batch not empty.
C15_Witness ==
    /\ pc = "isclose"
    /\ propagation_index >= self.delay
    /\ propagation_index % self.delay # 0
    /\ propagation_queues # <<>>

\* The batch without its j-th queue.
WithoutAt(queues, j) ==
    [m \in 1 .. Len(queues) - 1 |-> IF m < j THEN queues[m] ELSE queues[m + 1]]

\* C16: the pass over the batch starts at the newest queue and goes down by
\* one per visited queue to the oldest; the queues not visited yet keep their
\* places and contents whatever is removed; the index is always in range; a
\* visited queue has its oldest cell popped, once; a removal takes out the
\* visited queue only; and the snapshot is taken when the oldest queue has
\* been visited.
C16_EachQueueOnce ==
    /\ [](/\ pc = "for" => i \in 0 .. Len(propagation_queues)
          /\ pc = "dirs" => i \in 1 .. Len(propagation_queues))
    /\ [][/\ (pc = "isclose" /\ pc' = "for") =>
                /\ i' = Len(propagation_queues)
                /\ propagation_queues' = propagation_queues
          /\ (pc = "for" /\ pc' = "dirs") =>
                /\ i' = i
                /\ propagation_queues[i] # <<>>
                /\ cur' = Head(propagation_queues[i])
                /\ propagation_queues' = [propagation_queues EXCEPT ![i] = Tail(@)]
          /\ (pc = "dirs" /\ pc' = "dirs") =>
                /\ i' = i
                /\ cur' = cur
                /\ Len(propagation_queues') = Len(propagation_queues)
                /\ \A j \in 1 .. Len(propagation_queues) :
                      j # i => propagation_queues'[j] = propagation_queues[j]
          /\ (pc = "dirs" /\ pc' = "for") =>
                /\ i' = i - 1
                /\ propagation_queues' =
                      IF propagation_queues[i] = <<>>
                      THEN WithoutAt(propagation_queues, i)
                      ELSE propagation_queues
          /\ (pc = "for" /\ pc' = "for") =>
                /\ propagation_queues[i] = <<>>
                /\ i' = i - 1
                /\ propagation_queues' = WithoutAt(propagation_queues, i)
          /\ (pc = "for" /\ pc' = "while") => i = 0]_vars

\* In step 0, which starts with two queues, the newest queue has been removed
\* and a cell of the oldest is being processed.
C16_Witness ==
    /\ pc = "dirs"
    /\ propagation_index = 0
    /\ Len(propagation_queues) = 1
    /\ i = 1

\* The neighbour of cell c in direction d.
Neighbour(c, d) == <<c[1] + d[1], c[2] + d[2], c[3] + d[3]>>

\* The step is a transfer from cell c to its neighbour n through the queue
\* at index j.
Transfer(c, n, j) ==
    LET diff == calculate_temperature_change(self.heat_conductor, cube[c], cube[n])
    IN  /\ InBounds(self.cube_size, n)
        /\ cube[c] > cube[n]
        /\ diff < 0
        /\ \A m \in 1 .. Len(propagation_queues[j]) : propagation_queues[j][m] # n
        /\ cube' = [cube EXCEPT ![n] = cube[n] - diff, ![c] = cube[c] + diff]
        /\ propagation_queues'[j] = propagation_queues[j] \o <<n>>

\* C17: while a popped cell is processed the lattice changes only by a
\* transfer to an in-bounds, strictly colder neighbour with diff < 0 that is
\* not in the queue; the transfer raises the neighbour by -diff, lowers the
\* cell by as much and appends the neighbour; no other queue and no cell
\* other than the popped one and its in-bounds neighbours changes.
C17_OnlyTransfers ==
    [][/\ pc = "for" => cube' = cube
       /\ pc = "dirs" =>
          /\ cube' # cube =>
                /\ pc' = "dirs"
                /\ \E d \in directions : Transfer(cur, Neighbour(cur, d), i)
          /\ \A c \in Cells(self.cube_size) :
                (c # cur /\ \A d \in AllDirections : c # Neighbour(cur, d))
                    => cube'[c] = cube[c]
          /\ pc' = "dirs" =>
                /\ Len(propagation_queues') = Len(propagation_queues)
                /\ \A j \in 1 .. Len(propagation_queues) :
                      j # i => propagation_queues'[j] = propagation_queues[j]
          /\ pc' = "for" =>
                \/ propagation_queues' = propagation_queues
                \/ propagation_queues' = WithoutAt(propagation_queues, i)]_vars

\* The popped cell is not the origin and holds heat a transfer gave it, and
\* a direction not visited yet leads to a colder neighbour, with diff < 0,
\* that is in the queue already.
C17_Witness ==
    /\ pc = "dirs"
    /\ cur # self.origin
    /\ cube[cur] > self.start_temp
    /\ \E d \in directions :
          /\ InBounds(self.cube_size, Neighbour(cur, d))
          /\ cube[cur] > cube[Neighbour(cur, d)]
          /\ calculate_temperature_change(self.heat_conductor, cube[cur],
                                          cube[Neighbour(cur, d)]) < 0
          /\ InQueue(propagation_queues[i], Neighbour(cur, d))

\* How often cell c is in queue qu.
Occurrences(qu, c) == Cardinality({m \in 1 .. Len(qu) : qu[m] = c})

\* C18: under the guard the kernel never returns a positive value; a step of
\* the direction loop that leaves the lattice as it is either leaves the
\* queue as it is or appends the popped cell to it, after a diff of 0, and
\* the popped cell is never in its queue twice.
C18_NeverPositive ==
    /\ [](pc = "dirs" =>
            /\ \A d \in AllDirections :
                  (InBounds(self.cube_size, Neighbour(cur, d))
                      /\ cube[cur] > cube[Neighbour(cur, d)])
                  => calculate_temperature_change(self.heat_conductor, cube[cur],
                                                  cube[Neighbour(cur, d)]) <= 0
            /\ Occurrences(propagation_queues[i], cur) <= 1)
    /\ [][(pc = "dirs" /\ pc' = "dirs") =>
            \/ \E d \in directions : Transfer(cur, Neighbour(cur, d), i)
            \/ /\ cube' = cube
               /\ propagation_queues' = propagation_queues
            \/ /\ cube' = cube
               /\ Occurrences(propagation_queues[i], cur) = 0
               /\ propagation_queues' =
                     [propagation_queues EXCEPT ![i] = propagation_queues[i] \o <<cur>>]
               /\ \E d \in directions :
                     /\ InBounds(self.cube_size, Neighbour(cur, d))
                     /\ cube[cur] > cube[Neighbour(cur, d)]
                     /\ calculate_temperature_change(self.heat_conductor, cube[cur],
                                                     cube[Neighbour(cur, d)]) = 0]_vars

\* The popped cell is back in its queue, behind a neighbour it gave heat to.
C18_Witness ==
    /\ pc = "dirs"
    /\ Occurrences(propagation_queues[i], cur) = 1
    /\ Len(propagation_queues[i]) >= 2

\* C19: at the loop test, at the seeding, at the convergence check and
\* between two queues of the pass no queue of the batch is empty; a queue
\* that is empty after its processing is removed at once; and every queue
\* the pass comes to has a cell popped.
C19_NoEmptyQueue ==
    /\ [](pc \in {"while", "seed", "isclose", "for"} =>
            \A j \in 1 .. Len(propagation_queues) : propagation_queues[j] # <<>>)
    /\ [][/\ (pc = "dirs" /\ pc' = "for" /\ propagation_queues[i] = <<>>) =>
                Len(propagation_queues') = Len(propagation_queues) - 1
          /\ (pc = "for" /\ i >= 1) =>
                /\ pc' = "dirs"
                /\ Len(propagation_queues'[i]) = Len(propagation_queues[i]) - 1]_vars

\* A step has ended with fewer queues than were seeded so far, all of them
\* holding a cell.
C19_Witness ==
    /\ pc = "while"
    /\ propagation_index >= 1
    /\ Len(propagation_queues) \in 1 .. propagation_index
    /\ self.delay = 1

\* C20: after k completed steps the batch holds at most k + 1 queues; the
\* batch grows only at the seeding, by one queue, and only in a step whose
\* index is a multiple of delay or below delay.
C20_AtMostOnePerStep ==
    /\ []((pc \in {"while", "seed"} /\ raised = "") =>
            Len(propagation_queues) <= propagation_index + 1)
    /\ [][(pc # "constructed" /\ Len(propagation_queues') > Len(propagation_queues)) =>
            /\ pc = "seed"
            /\ Len(propagation_queues') = Len(propagation_queues) + 1
            /\ SeededStep(propagation_index, self.delay)]_vars

\* A step that seeded no queue has been completed with the batch not empty,
\* and the batch is no longer than before that step's predecessor seeded.
C20_Witness ==
    /\ pc = "while"
    /\ self.delay = 2
    /\ propagation_index = 4
    /\ propagation_queues # <<>>

====
